---- MODULE Spec2Model ----
(***************************************************************************)
(* State-machine model of the calcEntry recursive-descent evaluator        *)
(* (applications/test/dictionary/calcEntry/calcEntryParser.cpp).           *)
(*                                                                         *)
(* The host tokenises a calc-entry text into a token stream; a Parser is   *)
(* constructed over a Scanner and an optional error reporter, Parse() is   *)
(* called, and the Parser is destroyed.  The grammar procedures are        *)
(* executed statement by statement on an explicit call stack; Get, SynErr  *)
(* and Expect are state transformers on the parser registers, applied by   *)
(* the statement that calls them.                                          *)
(***************************************************************************)
EXTENDS Integers, Sequences, FiniteSets, TLC

VARIABLES
    input,      \* the token stream the scanner delivers (before the end-marker)
    plan,       \* what the host does: reporter supplied?, parsers, Parse() calls
    phase,      \* "none" | "ready" | "run" | "dead": life of the current Parser
    nParsers,   \* Parsers constructed so far
    nParses,    \* Parse() calls completed on the current Parser
    scanIdx,    \* scanner: number of tokens delivered by Scan()
    bufPos,     \* scanner->buffer position
    t,          \* Parser::t   (token pointer)
    la,         \* Parser::la  (token pointer)
    dummyToken, \* Parser::dummyToken: NoToken, or the contents of the dummy token
    errDist,    \* Parser::errDist
    errors,     \* Parser::errors: "null" | "host" | "own"
    deleteErrorsDestruct_,
    count,      \* errors->count
    val,        \* Parser::val
    stack,      \* call stack of the grammar procedures, top last
    hist,       \* observations of the run, written by the operations (see Hist0)
    rec,        \* the call of ExpectWeak() or WeakSeparator() under way (see Rec0)
    reader      \* the vtkPVFoamReader object and its backend (see Reader0)

vars == << input, plan, phase, nParsers, nParses, scanIdx, bufPos, t, la,
           dummyToken, errDist, errors, deleteErrorsDestruct_, count, val,
           stack, hist, rec, reader >>

(***************************************************************************)
(* Bounds of the model.                                                    *)
(***************************************************************************)
\* longest arbitrary token stream (any kinds, well-formed or not)
MaxLen == 3
\* longest generated well-formed expression, in tokens
MaxWF == 5
\* arbitrary streams up to this length are run under every host plan
LifeLen == 1
\* Parse() calls the host makes on one Parser, at most
MaxParses == 2
\* Parsers the host constructs one after the other on the same text, at most
MaxParsers == 2
\* blanks between two tokens of the text
Gap == 1
\* offset in the host buffer at which the calc-entry starts
Start == 4
\* Get() calls followed in a loop that has run past the end of the text
MaxSpin == 2
\* calls made on one vtkPVFoamReader
MaxCalls == 5
\* time steps a case directory holds, at most
MaxTimes == 2
\* file names the host may set
MaxNames == 2

(***************************************************************************)
(* Program constants.                                                      *)
(***************************************************************************)
\* highest kind of a grammar terminal: kinds above it are pragmas
maxT == 13
\* errors closer than this many tokens to the previous one are not reported
minErrDist == 2

EOFKind == 0
PragmaKind == maxT + 1

(***************************************************************************)
(* Scalars.  A scalar is a pair <<n, d>>: d > 0 a finite non-zero rational *)
(* n/d in lowest terms, <<0, 1>> and <<0, -1>> the zeros +0 and -0,        *)
(* <<1, 0>> and <<-1, 0>> the infinities, <<0, 0>> NaN.  Rounding and      *)
(* overflow of the double type are not modelled.                           *)
(***************************************************************************)
Abs(i) == IF i < 0 THEN -i ELSE i

Sgn(i) == IF i < 0 THEN -1 ELSE IF i > 0 THEN 1 ELSE 0

RECURSIVE Gcd(_, _)
Gcd(a, b) == IF b = 0 THEN a ELSE Gcd(b, a % b)

NaN == << 0, 0 >>

IsNaN(a) == a = NaN

IsInf(a) == a[2] = 0 /\ a[1] # 0

IsZero(a) == a[1] = 0 /\ a[2] # 0

\* sign of a scalar that is not NaN: 1 or -1
SignOf(a) == IF a[1] = 0 THEN Sgn(a[2]) ELSE Sgn(a[1])

Zero(s) == << 0, s >>

Inf(s) == << s, 0 >>

\* the finite scalar n/d, d # 0, n # 0
Rat(n, d) ==
    LET g == Gcd(Abs(n), Abs(d))
        s == Sgn(n) * Sgn(d)
    IN  << s * (Abs(n) \div g), Abs(d) \div g >>

FromInt(i) == IF i = 0 THEN Zero(1) ELSE << i, 1 >>

ScalarNeg(a) ==
    IF IsNaN(a) THEN NaN
    ELSE IF IsZero(a) THEN Zero(-a[2])
    ELSE << -a[1], a[2] >>

ScalarAdd(a, b) ==
    IF IsNaN(a) \/ IsNaN(b) THEN NaN
    ELSE IF IsInf(a) /\ IsInf(b) THEN (IF a = b THEN a ELSE NaN)
    ELSE IF IsInf(a) THEN a
    ELSE IF IsInf(b) THEN b
    ELSE IF IsZero(a) /\ IsZero(b) THEN (IF a = b THEN a ELSE Zero(1))
    ELSE IF IsZero(a) THEN b
    ELSE IF IsZero(b) THEN a
    ELSE LET n == a[1] * b[2] + b[1] * a[2]
         IN  IF n = 0 THEN Zero(1) ELSE Rat(n, a[2] * b[2])

ScalarSub(a, b) == ScalarAdd(a, ScalarNeg(b))

ScalarMul(a, b) ==
    IF IsNaN(a) \/ IsNaN(b) THEN NaN
    ELSE IF (IsInf(a) /\ IsZero(b)) \/ (IsZero(a) /\ IsInf(b)) THEN NaN
    ELSE LET s == SignOf(a) * SignOf(b)
         IN  IF IsInf(a) \/ IsInf(b) THEN Inf(s)
             ELSE IF IsZero(a) \/ IsZero(b) THEN Zero(s)
             ELSE Rat(a[1] * b[1], a[2] * b[2])

ScalarDiv(a, b) ==
    IF IsNaN(a) \/ IsNaN(b) THEN NaN
    ELSE IF (IsInf(a) /\ IsInf(b)) \/ (IsZero(a) /\ IsZero(b)) THEN NaN
    ELSE LET s == SignOf(a) * SignOf(b)
         IN  IF IsInf(a) \/ IsZero(b) THEN Inf(s)
             ELSE IF IsZero(a) \/ IsInf(b) THEN Zero(s)
             ELSE Rat(a[1] * b[2], a[2] * b[1])

\* the value of a member that no statement has written yet
Uninit == << 0, 0, 0 >>

(***************************************************************************)
(* Tokens.  The text of each terminal is fixed by its kind, except for     *)
(* variables and numbers; a symbol is a kind with a text, a token a symbol *)
(* with its place in the host buffer.                                      *)
(***************************************************************************)
NumTexts == { "0", "2" }

VarTexts == { "$a" }

KindText(k) ==
    CASE k = 0 -> ""
      [] k = 1 -> "ab"
      [] k = 2 -> "'s'"
      [] k = 5 -> "{"
      [] k = 6 -> "}"
      [] k = 7 -> "+"
      [] k = 8 -> "-"
      [] k = 9 -> "*"
      [] k = 10 -> "/"
      [] k = 11 -> "("
      [] k = 12 -> ")"
      [] k = 13 -> "?"
      [] OTHER -> "#pragma"

Sym(k, txt) == [ kind |-> k, val |-> txt ]

K(k) == Sym(k, KindText(k))

Symbols ==
    { K(k) : k \in ((1 .. PragmaKind) \ { 3, 4 }) }
        \cup { Sym(3, x) : x \in VarTexts }
        \cup { Sym(4, x) : x \in NumTexts }

\* coco_string_length
coco_string_length(txt) == Len(txt)

RECURSIVE TextEnd(_, _)
\* offset just after the i-th symbol of stream s and the blanks that follow it
TextEnd(s, i) ==
    IF i = 0 THEN Start
    ELSE TextEnd(s, i - 1) + coco_string_length(s[i].val) + Gap

\* the token object the i-th call of Scan() returns on stream s: the i-th
\* symbol of the text, and the end-marker for ever once the text is used up
TokenOf(s, i) ==
    IF i <= Len(s)
    THEN [ kind |-> s[i].kind, pos |-> TextEnd(s, i - 1), col |-> TextEnd(s, i - 1) + 1,
           line |-> 1, val |-> s[i].val ]
    ELSE [ kind |-> EOFKind, pos |-> TextEnd(s, Len(s)), col |-> TextEnd(s, Len(s)) + 1,
           line |-> 1, val |-> "" ]

TokenAt(i) == TokenOf(input, i)

\* buffer position once Scan() has delivered token tok: the scanner has read
\* one character beyond the token, unless the buffer is used up
PosAfterScan(tok) ==
    IF tok.kind = EOFKind THEN tok.pos
    ELSE tok.pos + coco_string_length(tok.val) + 1

(***************************************************************************)
(* Token pointers: NULL, the g-th dummy token the Parser allocated, or the  *)
(* token object of the i-th Scan().                                        *)
(***************************************************************************)
NullPtr == << "null" >>

DummyAt(g) == << "dummy", g >>

TokPtr(i) == << "tok", i >>

\* contents of Parser::dummyToken while no dummy token is allocated
NoToken == [ kind |-> -1, pos |-> -1, col |-> -1, line |-> -1, val |-> "" ]

\* new Token(); val = coco_string_create(L"Dummy Token")
NewDummy == [ kind |-> 0, pos |-> 0, col |-> 0, line |-> 0, val |-> "Dummy Token" ]

(***************************************************************************)
(* The registers the token operations work on, as one record.              *)
(***************************************************************************)
Hist0 ==
    [ nGet |-> 0,        \* calls of Get()
      sinceReport |-> 0, \* calls of Get() since the last reported diagnostic
      nSynErr |-> 0,     \* calls of SynErr()
      diag |-> << >>,    \* the last diagnostic reported: << line, col, code >>
      nSetPos |-> 0,     \* calls of buffer->SetPos()
      divZero |-> FALSE, \* a division by a zero divisor was executed
      dummyNew |-> 0,    \* dummy tokens allocated by the current Parser
      dummyDel |-> 0,    \* dummy tokens released by the current Parser
      ownNew |-> 0,      \* error reporters created by the current Parser
      ownDel |-> 0,      \* times the Parser destroyed a reporter it created
      hostDel |-> 0,     \* times the Parser destroyed a reporter of the host
      trace |-> << >>,   \* the steps of the first Parse() of the current Parser
      prev |-> << >>     \* the first Parse() of the Parser before this one
    ]

\* vtkPVFoamReader::vtkPVFoamReader(): the reader as constructed
Reader0 ==
    [ FileName |-> 0,    \* 0: nullptr, or the number of the name set
      backend_ |-> 0,    \* 0: nullptr, or the number of the backend pointed to
      made |-> 0,        \* backends created so far
      alive |-> { },     \* backends created and not deleted
      steps |-> 0,       \* TIME_STEPS held by the output information
      calls |-> 0,       \* calls made on the reader so far
      last |-> "none",   \* the last call made
      ret |-> -1,        \* what the last request returned
      found |-> -1,      \* time steps findTimes() returned in the last call, if called
      log |-> << >>,     \* backend methods called in the last call
      misuse |-> FALSE   \* a method was called through a null or dangling backend_
    ]

\* no call of ExpectWeak() or WeakSeparator() made yet
Rec0 ==
    [ op |-> "none",   \* "none" | "ExpectWeak" | "WeakSeparator"
      pc |-> "idle",   \* "idle" | "skip": in the while loop | "done": returned
      n |-> 0,         \* argument n
      syFol |-> 0,     \* argument syFol of WeakSeparator, follow of ExpectWeak
      repFol |-> 0,    \* argument repFol of WeakSeparator
      ret |-> FALSE,   \* value returned by WeakSeparator
      nGet0 |-> 0      \* calls of Get() made before the call
    ]

Regs ==
    [ t |-> t, la |-> la, dummyToken |-> dummyToken, errDist |-> errDist,
      count |-> count, scanIdx |-> scanIdx, bufPos |-> bufPos, hist |-> hist ]

Apply(r) ==
    /\ t' = r.t
    /\ la' = r.la
    /\ dummyToken' = r.dummyToken
    /\ errDist' = r.errDist
    /\ count' = r.count
    /\ scanIdx' = r.scanIdx
    /\ bufPos' = r.bufPos
    /\ hist' = r.hist

\* the pointer held by Parser::dummyToken: the dummy token allocated last
DummyPtr(r) == DummyAt(r.hist.dummyNew)

\* p points to a dummy token that was released
IsDangling(r, p) ==
    p[1] = "dummy" /\ (p[2] # r.hist.dummyNew \/ r.dummyToken = NoToken)

\* *p for a token pointer p; a released token reads as NoToken
Deref(r, p) ==
    IF p[1] = "dummy"
    THEN IF IsDangling(r, p) THEN NoToken ELSE r.dummyToken
    ELSE TokenAt(p[2])

LaKind(r) == Deref(r, r.la).kind

\* scanner->Scan()
Scan(r) ==
    [ r EXCEPT !.la = TokPtr(r.scanIdx + 1),
               !.scanIdx = r.scanIdx + 1,
               !.bufPos = PosAfterScan(TokenAt(r.scanIdx + 1)) ]

\* a reporter that prints the diagnostic and forgets to count it
ErrorsErrorNoCount(r, line, col, n) ==
    [ r EXCEPT !.hist.sinceReport = 0,
               !.hist.diag = << line, col, n >> ]

\* Errors::SynErr / Errors::Error: one diagnostic, count++
ErrorsError(r, line, col, n) ==
    [ r EXCEPT !.count = r.count + 1,
               !.hist.sinceReport = 0,
               !.hist.diag = << line, col, n >> ]

\* SynErr that leaves errDist as it is
SynErrNoReset(r, n) ==
    LET r1 == IF r.errDist >= minErrDist
              THEN ErrorsError(r, Deref(r, r.la).line, Deref(r, r.la).col, n)
              ELSE r
    IN  [ r1 EXCEPT !.hist.nSynErr = r.hist.nSynErr + 1 ]

\* SynErr that reports at the token last consumed, as SemErr does
SynErrAtT(r, n) ==
    LET r1 == IF r.errDist >= minErrDist
              THEN ErrorsError(r, Deref(r, r.t).line, Deref(r, r.t).col, n)
              ELSE r
    IN  [ r1 EXCEPT !.errDist = 0, !.hist.nSynErr = r.hist.nSynErr + 1 ]

\* Parser::SynErr(n)
SynErr(r, n) ==
    LET r1 == IF r.errDist >= minErrDist
              THEN ErrorsError(r, Deref(r, r.la).line, Deref(r, r.la).col, n)
              ELSE r
    IN  [ r1 EXCEPT !.errDist = 0, !.hist.nSynErr = r.hist.nSynErr + 1 ]

\* Parser::SemErr(msg)
SemErr(r) ==
    LET r1 == IF r.errDist >= minErrDist
              THEN ErrorsError(r, Deref(r, r.t).line, Deref(r, r.t).col, -1)
              ELSE r
    IN  [ r1 EXCEPT !.errDist = 0 ]

\* the loop of Get() without the copy into the dummy token: a pragma is
\* skipped by going round the loop again
RECURSIVE GetLoopNoCopy(_)
GetLoopNoCopy(r0) ==
    LET r1 == Scan([ r0 EXCEPT !.t = r0.la ])
    IN  IF LaKind(r1) <= maxT
        THEN [ r1 EXCEPT !.errDist = r1.errDist + 1 ]
        ELSE GetLoopNoCopy(r1)

\* the body of the loop of Get() from the second statement on, t = la done:
\* one Scan(), and for a pragma the copy into the dummy token and la = t
RECURSIVE GetLoop(_)
GetLoop(r0) ==
    LET r1 == Scan([ r0 EXCEPT !.t = r0.la ])
    IN  IF LaKind(r1) <= maxT
        THEN [ r1 EXCEPT !.errDist = r1.errDist + 1 ]
        ELSE LET r2 == IF DummyPtr(r1) # r1.t
                       THEN [ r1 EXCEPT !.dummyToken = Deref(r1, r1.t),
                                        !.t = DummyPtr(r1) ]
                       ELSE r1
             IN  GetLoop([ r2 EXCEPT !.la = r2.t ])

\* Get() with ++errDist inside the loop, before the test of the kind
GetPerScan(r) ==
    LET r1 == GetLoop(r)
    IN  [ r1 EXCEPT !.errDist = r.errDist + (r1.scanIdx - r.scanIdx),
                    !.hist.nGet = r.hist.nGet + 1,
                    !.hist.sinceReport = r.hist.sinceReport + 1 ]

\* Parser::Get()
Get(r) ==
    LET r1 == GetLoop(r)
    IN  [ r1 EXCEPT !.hist.nGet = r.hist.nGet + 1,
                    !.hist.sinceReport = r.hist.sinceReport + 1 ]

\* Expect without its else branch
ExpectLenient(r, n) == IF LaKind(r) = n THEN Get(r) ELSE r

\* Expect that skips the token it did not expect
ExpectSkip(r, n) == IF LaKind(r) = n THEN Get(r) ELSE Get(SynErr(r, n))

\* Parser::Expect(n)
Expect(r, n) == IF LaKind(r) = n THEN Get(r) ELSE SynErr(r, n)

\* the table with the column of '-' cleared in row 1
StartOfSetNoMinus(s) == IF s = 0 THEN { 0 } ELSE { 3, 4, 11 }

\* the table with the column of '}' set in row 1
StartOfSetWithBrace(s) == IF s = 0 THEN { 0 } ELSE { 3, 4, 6, 8, 11 }

\* Parser::StartOf(s), the table set[2][15]
StartOfSet(s) == IF s = 0 THEN { 0 } ELSE { 3, 4, 8, 11 }

StartOf(r, s) == LaKind(r) \in StartOfSet(s)

\* scanner->buffer->SetPos(p)
SetPos(r, p) == [ r EXCEPT !.bufPos = p, !.hist.nSetPos = r.hist.nSetPos + 1 ]

\* host resolvers of the text of the current token
getScalar(r) ==
    LET txt == Deref(r, r.t).val
    IN  IF txt = "0" THEN FromInt(0) ELSE IF txt = "2" THEN FromInt(2) ELSE NaN

getDictLookup(r) ==
    LET txt == Deref(r, r.t).val
    IN  IF txt = "$a" THEN FromInt(3) ELSE NaN

(***************************************************************************)
(* The call stack.  A frame is a grammar procedure at a program point,     *)
(* with the scalar its reference parameter refers to (ref = 0: the member  *)
(* val, ref = i > 0: the local val2 of frame i) and its own local val2.    *)
(***************************************************************************)
Frame(p, pc, ref) == [ proc |-> p, pc |-> pc, ref |-> ref, val2 |-> Uninit ]

Top == stack[Len(stack)]

Goto(st, pc) == [ st EXCEPT ![Len(st)].pc = pc ]

Call(st, pc, f) == Append(Goto(st, pc), f)

Ret(st) == SubSeq(st, 1, Len(st) - 1)

\* the scalar a reference refers to, given the stack st and the member val v
ReadRef(st, v, ref) == IF ref = 0 THEN v ELSE st[ref].val2

\* stack and member val once x is written through a reference
WriteRef(st, v, ref, x) ==
    IF ref = 0 THEN [ stack |-> st, val |-> x ]
    ELSE [ stack |-> [ st EXCEPT ![ref].val2 = x ], val |-> v ]

InParse(p) == phase = "run" /\ stack # << >> /\ Top.proc = p

\* what an observer of the Parser sees after a step
Observation(r, st, v) ==
    << IF st = << >> THEN << >> ELSE << st[Len(st)].proc, st[Len(st)].pc >>,
       Len(st), r.t, r.la, r.dummyToken, r.errDist, r.count, r.scanIdx, r.bufPos, v >>

\* the step is added to the trace of a first Parse(), when the host is going
\* to run a second Parser to compare with
Observe(r, st, v) ==
    IF nParses = 0 /\ plan.parsers > 1
    THEN [ r EXCEPT !.hist.trace = Append(r.hist.trace, Observation(r, st, v)) ]
    ELSE r

\* one step of a grammar procedure: registers r, stack st, member val v
Do(r, st, v) ==
    /\ Apply(Observe(r, st, v))
    /\ stack' = st
    /\ val' = v
    /\ UNCHANGED << input, plan, phase, nParsers, nParses, errors,
                    deleteErrorsDestruct_, rec, reader >>

(***************************************************************************)
(* Parser::Parse                                                           *)
(***************************************************************************)
\* Parse() without the delete of the dummy token of the call before
ParseEnterLeak(r) ==
    Get([ r EXCEPT !.t = NullPtr, !.dummyToken = NewDummy,
                   !.la = DummyAt(r.hist.dummyNew + 1),
                   !.hist.dummyNew = r.hist.dummyNew + 1 ])

\* t = NULL; release the old dummy token; la = dummyToken = new Token(); Get()
ParseEnter(r) ==
    LET r1 == IF r.dummyToken # NoToken
              THEN [ r EXCEPT !.hist.dummyDel = r.hist.dummyDel + 1 ]
              ELSE r
    IN  Get([ r1 EXCEPT !.t = NullPtr, !.dummyToken = NewDummy,
                        !.la = DummyAt(r.hist.dummyNew + 1),
                        !.hist.dummyNew = r.hist.dummyNew + 1 ])

Parse ==
    /\ InParse("Parse")
    /\ \/ /\ Top.pc = "start"
          /\ Do(ParseEnter(Regs), Call(stack, "ret", Frame("calcEntry", "start", 0)), val)
       \/ /\ Top.pc = "ret"
          /\ stack' = Ret(stack)
          /\ phase' = "ready"
          /\ nParses' = nParses + 1
          /\ UNCHANGED << input, plan, nParsers, scanIdx, bufPos, t, la, dummyToken,
                          errDist, errors, deleteErrorsDestruct_, count, val, hist,
                          rec, reader >>

(***************************************************************************)
(* Parser::calcEntry                                                       *)
(***************************************************************************)
\* repositioning at the lookahead token instead
RepositionAtLa(r) == SetPos(r, Deref(r, r.la).pos)

\* scanner->buffer->SetPos(t->pos + coco_string_length(t->val))
Reposition(r) ==
    SetPos(r, Deref(r, r.t).pos + coco_string_length(Deref(r, r.t).val))

\* a braced form that wants the end-marker after the brace, like the bare form
CloseBraceToEnd(r) == Reposition(Expect(Expect(r, 6), 0))

\* Expect(6) and the repositioning that follows it
CloseBrace(r) == Reposition(Expect(r, 6))

calcEntry ==
    /\ InParse("calcEntry")
    /\ \/ /\ Top.pc = "start"
          /\ IF LaKind(Regs) = 5
             THEN Do(Get(Regs), Call(stack, "rbrace", Frame("Expr", "start", 0)),
                     FromInt(0))
             ELSE IF StartOf(Regs, 1)
             THEN Do(Regs, Call(stack, "eof", Frame("Expr", "start", 0)), FromInt(0))
             ELSE Do(SynErr(Regs, 14), Ret(stack), FromInt(0))
       \/ /\ Top.pc = "rbrace"
          /\ Do(CloseBrace(Regs), Ret(stack), val)
       \/ /\ Top.pc = "eof"
          /\ Do(Expect(Regs, 0), Ret(stack), val)

(***************************************************************************)
(* Parser::Expr                                                            *)
(***************************************************************************)
\* the fold with its operands the other way round
ExprFoldSwapped(op, a, b) == IF op = 7 THEN ScalarAdd(b, a) ELSE ScalarSub(b, a)

\* val += val2 (op 7) and val -= val2 (op 8)
ExprFold(op, a, b) == IF op = 7 THEN ScalarAdd(a, b) ELSE ScalarSub(a, b)

\* a loop head that reports a lookahead which can neither go on with the
\* repetition nor follow it
ExprLoopWeak(r) ==
    IF LaKind(r) \in { 7, 8 } THEN Get(r)
    ELSE IF LaKind(r) \in { 0, 6, 12 } THEN r
    ELSE SynErr(r, 7)

\* a loop head that goes into the next clause without consuming the operator
ExprLoopNoGet(r) == r

\* the head of the loop of Expr: the test of la->kind, and the Get() of the
\* operator when the test holds
ExprLoop(r) == IF LaKind(r) \in { 7, 8 } THEN Get(r) ELSE r

Expr ==
    /\ InParse("Expr")
    /\ LET me == Len(stack)
       IN  \/ /\ Top.pc = "start"
              /\ Do(Regs,
                    Call([ stack EXCEPT ![me].val2 = FromInt(0) ], "loop",
                         Frame("Term", "start", Top.ref)),
                    val)
           \/ /\ Top.pc = "loop"
              /\ IF LaKind(Regs) \in { 7, 8 }
                 THEN Do(ExprLoop(Regs),
                         Call(stack, IF LaKind(Regs) = 7 THEN "add" ELSE "sub",
                              Frame("Term", "start", me)),
                         val)
                 ELSE Do(ExprLoop(Regs), Ret(stack), val)
           \/ /\ Top.pc \in { "add", "sub" }
              /\ LET w == WriteRef(stack, val, Top.ref,
                                   ExprFold(IF Top.pc = "add" THEN 7 ELSE 8,
                                            ReadRef(stack, val, Top.ref), Top.val2))
                 IN  Do(Regs, Goto(w.stack, "loop"), w.val)

(***************************************************************************)
(* Parser::Term                                                            *)
(***************************************************************************)
\* val *= val2 (op 9) and val /= val2 (op 10)
TermFold(op, a, b) == IF op = 9 THEN ScalarMul(a, b) ELSE ScalarDiv(a, b)

\* a division that reports a zero divisor as an error
DivideTrap(r, b) ==
    IF IsZero(b) THEN SemErr([ r EXCEPT !.hist.divZero = TRUE ]) ELSE r

\* the registers after val /= val2: a zero divisor is nothing special
Divide(r, b) == [ r EXCEPT !.hist.divZero = r.hist.divZero \/ IsZero(b) ]

\* the head of the loop of Term
TermLoop(r) == IF LaKind(r) \in { 9, 10 } THEN Get(r) ELSE r

Term ==
    /\ InParse("Term")
    /\ LET me == Len(stack)
       IN  \/ /\ Top.pc = "start"
              /\ Do(Regs,
                    Call([ stack EXCEPT ![me].val2 = FromInt(0) ], "loop",
                         Frame("Factor", "start", Top.ref)),
                    val)
           \/ /\ Top.pc = "loop"
              /\ IF LaKind(Regs) \in { 9, 10 }
                 THEN Do(TermLoop(Regs),
                         Call(stack, IF LaKind(Regs) = 9 THEN "mul" ELSE "div",
                              Frame("Factor", "start", me)),
                         val)
                 ELSE Do(TermLoop(Regs), Ret(stack), val)
           \/ /\ Top.pc \in { "mul", "div" }
              /\ LET w == WriteRef(stack, val, Top.ref,
                                   TermFold(IF Top.pc = "mul" THEN 9 ELSE 10,
                                            ReadRef(stack, val, Top.ref), Top.val2))
                 IN  Do(IF Top.pc = "div" THEN Divide(Regs, Top.val2) ELSE Regs,
                        Goto(w.stack, "loop"), w.val)

(***************************************************************************)
(* Parser::Factor                                                          *)
(***************************************************************************)
Factor ==
    /\ InParse("Factor")
    /\ \/ /\ Top.pc = "start"
          /\ LET k == LaKind(Regs)
                 r == Get(Regs)
             IN  CASE k = 3 ->
                        LET w == WriteRef(stack, val, Top.ref, getDictLookup(r))
                        IN  Do(r, Ret(w.stack), w.val)
                   [] k = 4 ->
                        LET w == WriteRef(stack, val, Top.ref, getScalar(r))
                        IN  Do(r, Ret(w.stack), w.val)
                   [] k = 8 -> Do(r, Goto(stack, "lparen"), val)
                   [] k = 11 ->
                        Do(r, Call(stack, "rparen", Frame("Expr", "start", Top.ref)), val)
                   [] OTHER -> Do(SynErr(Regs, 15), Ret(stack), val)
       \/ /\ Top.pc = "lparen"
          /\ Do(Expect(Regs, 11), Call(stack, "neg", Frame("Expr", "start", Top.ref)), val)
       \/ /\ Top.pc = "neg"
          /\ LET w == WriteRef(stack, val, Top.ref,
                               ScalarNeg(ReadRef(stack, val, Top.ref)))
             IN  Do(Expect(Regs, 12), Ret(w.stack), w.val)
       \/ /\ Top.pc = "rparen"
          /\ Do(Expect(Regs, 12), Ret(stack), val)

(***************************************************************************)
(* The host: constructs a Parser on a fresh Scanner at the start of the    *)
(* calc-entry, calls Parse(), destroys the Parser.                         *)
(***************************************************************************)
\* a Parser that takes every reporter for its own
OwnsErrorsAlways(err) == TRUE

\* deleteErrorsDestruct_(!err)
OwnsErrors(err) == ~err

\* a constructor that starts errDist at 0
CtorErrDistZero(old) == 0

\* errDist left as the Parser before left it, as a static member would be
CtorErrDistKept(old) == old

\* errDist(minErrDist); old is what the storage held before
CtorErrDist(old) == minErrDist

\* Parser::Parser(scan, err): err tells whether the host supplies a reporter
Construct ==
    /\ phase \in { "none", "dead" }
    /\ nParsers < plan.parsers
    /\ phase' = "ready"
    /\ nParsers' = nParsers + 1
    /\ nParses' = 0
    /\ scanIdx' = 0
    /\ bufPos' = Start
    /\ t' = NullPtr
    /\ la' = NullPtr
    /\ dummyToken' = NoToken
    /\ errDist' = CtorErrDist(errDist)
    /\ deleteErrorsDestruct_' = OwnsErrors(plan.err)
    /\ errors' = IF plan.err THEN "host" ELSE "own"
    /\ count' = 0
    /\ val' = Uninit
    /\ stack' = << >>
    /\ hist' = [ Hist0 EXCEPT !.ownNew = IF plan.err THEN 0 ELSE 1,
                              !.prev = hist.trace ]
    /\ rec' = Rec0
    /\ UNCHANGED << input, plan, reader >>

\* the host calls Parse()
CallParse ==
    /\ phase = "ready"
    /\ nParses < plan.parses
    /\ phase' = "run"
    /\ stack' = << Frame("Parse", "start", 0) >>
    /\ UNCHANGED << input, plan, nParsers, nParses, scanIdx, bufPos, t, la,
                    dummyToken, errDist, errors, deleteErrorsDestruct_, count, val,
                    hist, rec, reader >>

\* Parser::~Parser()
Destruct(h, del, errs, dummy) ==
    [ h EXCEPT !.ownDel = IF del /\ errs = "own" THEN @ + 1 ELSE @,
               !.hostDel = IF del /\ errs = "host" THEN @ + 1 ELSE @,
               !.dummyDel = IF dummy # NoToken THEN @ + 1 ELSE @ ]

Destroy ==
    /\ phase = "ready"
    /\ nParses = plan.parses
    /\ phase' = "dead"
    /\ hist' = Destruct(hist, deleteErrorsDestruct_, errors, dummyToken)
    /\ errors' = IF deleteErrorsDestruct_ THEN "null" ELSE errors
    /\ dummyToken' = NoToken
    /\ UNCHANGED << input, plan, nParsers, nParses, scanIdx, bufPos, t, la, errDist,
                    deleteErrorsDestruct_, count, val, stack, rec, reader >>

(***************************************************************************)
(* The inputs: every token stream up to MaxLen tokens, the well-formed     *)
(* expressions up to MaxWF tokens bare and braced, the braced ones with    *)
(* text after the closing brace, and pragmas between the tokens.           *)
(***************************************************************************)
Atoms == { << x >> : x \in { y \in Symbols : y.kind \in { 3, 4 } } }

RECURSIVE FactorsOfLen(_), TermsOfLen(_), ExprsOfLen(_)
FactorsOfLen(n) ==
    (IF n = 1 THEN Atoms ELSE { })
        \cup (IF n >= 3
              THEN { << K(11) >> \o e \o << K(12) >> : e \in ExprsOfLen(n - 2) }
              ELSE { })
        \cup (IF n >= 4
              THEN { << K(8), K(11) >> \o e \o << K(12) >> : e \in ExprsOfLen(n - 3) }
              ELSE { })

TermsOfLen(n) ==
    FactorsOfLen(n)
        \cup UNION { { a \o << K(op) >> \o b :
                         a \in TermsOfLen(i), b \in FactorsOfLen(n - 1 - i),
                         op \in { 9, 10 } } : i \in 1 .. (n - 2) }

ExprsOfLen(n) ==
    TermsOfLen(n)
        \cup UNION { { a \o << K(op) >> \o b :
                         a \in ExprsOfLen(i), b \in TermsOfLen(n - 1 - i),
                         op \in { 7, 8 } } : i \in 1 .. (n - 2) }

WFExprs == UNION { ExprsOfLen(n) : n \in 1 .. MaxWF }

ShortStreams == UNION { [ 1 .. n -> Symbols ] : n \in 0 .. MaxLen }

\* what may follow the closing brace in the host text
Suffixes ==
    { << >>, << K(PragmaKind) >>, << K(6) >>, << K(7), Sym(4, "2") >>,
      << K(PragmaKind), K(1) >> }

Braced == { << K(5) >> \o e \o << K(6) >> \o s : e \in WFExprs, s \in Suffixes }

\* stream s with a pragma token put in after its first i tokens
WithPragma(s, i) == SubSeq(s, 1, i) \o << K(PragmaKind) >> \o SubSeq(s, i + 1, Len(s))

Pragmaed ==
    UNION { { WithPragma(s, i) : i \in 0 .. Len(s) } :
              s \in { x \in WFExprs \cup Braced : Len(x) <= MaxLen + 2 } }

\* stream s without its i-th token
Remove(s, i) == SubSeq(s, 1, i - 1) \o SubSeq(s, i + 1, Len(s))

\* the well-formed streams with one token lost
Damaged ==
    UNION { { Remove(s, i) : i \in 1 .. Len(s) } :
              s \in WFExprs \cup { << K(5) >> \o e \o << K(6) >> : e \in WFExprs } }

\* two operators and one pair of parentheses: (a op b) op c, a op (b op c),
\* -(a op b) op c
Nested ==
    UNION { { << K(11) >> \o a \o << K(o1) >> \o b \o << K(12), K(o2) >> \o c,
              a \o << K(o1), K(11) >> \o b \o << K(o2) >> \o c \o << K(12) >>,
              << K(8), K(11) >> \o a \o << K(o1) >> \o b \o << K(12), K(o2) >> \o c } :
              a \in Atoms, b \in Atoms, c \in Atoms, o1 \in 7 .. 10, o2 \in 7 .. 10 }

Inputs ==
    ShortStreams \cup WFExprs \cup Braced \cup Pragmaed \cup Damaged \cup Nested

Plans == [ err : BOOLEAN, parsers : 1 .. MaxParsers, parses : 0 .. MaxParses ]

\* the plans under which the host runs stream s
PlansFor(s) ==
    IF Len(s) <= LifeLen THEN Plans
    ELSE IF Len(s) <= MaxLen
    THEN { [ err |-> FALSE, parsers |-> n, parses |-> 1 ] : n \in { 1, 2 } }
    ELSE { [ err |-> FALSE, parsers |-> 1, parses |-> 1 ] }

Init ==
    /\ input \in Inputs
    /\ plan \in PlansFor(input)
    /\ phase = "none"
    /\ nParsers = 0
    /\ nParses = 0
    /\ scanIdx = 0
    /\ bufPos = Start
    /\ t = NullPtr
    /\ la = NullPtr
    /\ dummyToken = NoToken
    /\ errDist = 0
    /\ errors = "null"
    /\ deleteErrorsDestruct_ = FALSE
    /\ count = 0
    /\ val = Uninit
    /\ stack = << >>
    /\ hist = Hist0
    /\ rec = Rec0
    /\ reader = Reader0

Next ==
    \/ Construct
    \/ CallParse
    \/ Parse
    \/ calcEntry
    \/ Expr
    \/ Term
    \/ Factor
    \/ Destroy

Spec == Init /\ [][Next]_vars

(***************************************************************************)
(* Parser::ExpectWeak and Parser::WeakSeparator. No grammar procedure      *)
(* calls them: they are run here on a Parser whose Parse() has returned,   *)
(* with la wherever that parse stopped, one loop round a step.             *)
(***************************************************************************)
\* the kinds passed as n
WeakKinds == { 7, 12 }

\* the rows of the table of StartOf
FollowSets == { 0, 1 }

\* a step of a call that leaves the Parser's other members alone
Weak(r, c, ph) ==
    /\ Apply(r)
    /\ rec' = c
    /\ phase' = ph
    /\ UNCHANGED << input, plan, nParsers, nParses, errors, deleteErrorsDestruct_,
                    val, stack, reader >>

\* Get() in a while loop: past the end of the text only MaxSpin calls are
\* followed
SkipGet(r) ==
    IF r.scanIdx < Len(input) + 1 + MaxSpin THEN { Get(r) } ELSE { }

\* the loop of ExpectWeak that also stops at the end-marker
ExpectWeakDoneAtEnd(r, follow) == StartOf(r, follow) \/ StartOf(r, 0)

\* ExpectWeak: the negated condition of the while loop
ExpectWeakDone(r, follow) == StartOf(r, follow)

\* Parser::ExpectWeak(n, follow)
ExpectWeak ==
    \/ /\ phase = "ready"
       /\ nParses >= 1
       /\ rec.op = "none"
       /\ \E n \in WeakKinds, follow \in FollowSets :
             LET c == [ Rec0 EXCEPT !.op = "ExpectWeak", !.n = n, !.syFol = follow,
                                    !.nGet0 = hist.nGet ]
             IN  IF LaKind(Regs) = n
                 THEN Weak(Get(Regs), [ c EXCEPT !.pc = "done" ], "ready")
                 ELSE Weak(SynErr(Regs, n), [ c EXCEPT !.pc = "skip" ], "run")
    \/ /\ rec.op = "ExpectWeak"
       /\ rec.pc = "skip"
       /\ IF ExpectWeakDone(Regs, rec.syFol)
          THEN Weak(Regs, [ rec EXCEPT !.pc = "done" ], "ready")
          ELSE \E r \in SkipGet(Regs) : Weak(r, rec, "run")

\* the loop of WeakSeparator without the test of set 0
WeakSeparatorDoneNoEnd(r, syFol, repFol) == StartOf(r, syFol) \/ StartOf(r, repFol)

\* WeakSeparator: the negated condition of the while loop
WeakSeparatorDone(r, syFol, repFol) ==
    StartOf(r, syFol) \/ StartOf(r, repFol) \/ StartOf(r, 0)

\* Parser::WeakSeparator(n, syFol, repFol)
WeakSeparator ==
    \/ /\ phase = "ready"
       /\ nParses >= 1
       /\ rec.op = "none"
       /\ \E n \in WeakKinds, syFol \in FollowSets, repFol \in FollowSets :
             LET c == [ Rec0 EXCEPT !.op = "WeakSeparator", !.n = n, !.syFol = syFol,
                                    !.repFol = repFol, !.nGet0 = hist.nGet ]
             IN  IF LaKind(Regs) = n
                 THEN Weak(Get(Regs), [ c EXCEPT !.pc = "done", !.ret = TRUE ], "ready")
                 ELSE IF StartOf(Regs, repFol)
                 THEN Weak(Regs, [ c EXCEPT !.pc = "done", !.ret = FALSE ], "ready")
                 ELSE Weak(SynErr(Regs, n), [ c EXCEPT !.pc = "skip" ], "run")
    \/ /\ rec.op = "WeakSeparator"
       /\ rec.pc = "skip"
       /\ IF WeakSeparatorDone(Regs, rec.syFol, rec.repFol)
          THEN Weak(Regs, [ rec EXCEPT !.pc = "done",
                                       !.ret = StartOf(Regs, rec.syFol) ], "ready")
          ELSE \E r \in SkipGet(Regs) : Weak(r, rec, "run")

\* a Parser of its own reporter that parses once, on every short stream
InitRecover ==
    /\ Init
    /\ input \in ShortStreams
    /\ plan = [ err |-> FALSE, parsers |-> 1, parses |-> 1 ]

NextRecover ==
    \/ Next
    \/ ExpectWeak
    \/ WeakSeparator

SpecRecover == InitRecover /\ [][NextRecover]_vars

(***************************************************************************)
(* vtkPVFoamReader: the requests of the pipeline on one reader. The host   *)
(* sets the file name; what findTimes() finds in the case directory, and   *)
(* what the pipeline and the application hold, is chosen freely.           *)
(***************************************************************************)
\* the Parser is left alone
ParserVars ==
    << input, plan, phase, nParsers, nParses, scanIdx, bufPos, t, la, dummyToken,
       errDist, errors, deleteErrorsDestruct_, count, val, stack, hist, rec >>

\* a call enters: nothing returned, found or called yet
Enter(r, name) ==
    [ r EXCEPT !.calls = r.calls + 1, !.last = name, !.ret = -1, !.found = -1,
               !.log = << >> ]

\* backend_->method(...)
Backend(r, method) ==
    [ r EXCEPT !.log = Append(r.log, method),
               !.misuse = r.misuse \/ r.backend_ \notin r.alive ]

\* backend_ = new Foam::vtkPVFoam(FileName, this)
NewBackend(r) ==
    [ r EXCEPT !.made = r.made + 1, !.backend_ = r.made + 1,
               !.alive = r.alive \cup { r.made + 1 } ]

\* the fatal error of RequestInformation with the pointer left as it is
NoTimesKeepPointer(r) ==
    [ r EXCEPT !.alive = r.alive \ { r.backend_ }, !.ret = 0 ]

\* RequestInformation, times.empty(): delete backend_; backend_ = nullptr;
\* return 0
NoTimes(r) ==
    [ r EXCEPT !.alive = r.alive \ { r.backend_ }, !.backend_ = 0, !.ret = 0 ]

\* vtkPVFoamReader::RequestInformation with n time steps in the case
RequestInformationOn(r0, n) ==
    LET r == Enter(r0, "RequestInformation")
    IN  IF r.FileName = 0 THEN [ r EXCEPT !.ret = 0 ]
        ELSE LET r1 == IF r.backend_ = 0 THEN NewBackend(r)
                       ELSE Backend(r, "updateInfo")
                 r2 == [ Backend(r1, "findTimes") EXCEPT !.found = n ]
             IN  IF n = 0 THEN NoTimes(r2)
                 ELSE [ r2 EXCEPT !.steps = n, !.ret = 1 ]

\* vtkPVFoamReader::updatePatchNamesView with the application showing views
updatePatchNamesView(r, views) ==
    IF ~views \/ r.backend_ = 0 THEN r ELSE Backend(r, "renderPatchNames")

\* vtkPVFoamReader::RequestData; upd: the output information has
\* UPDATE_TIME_STEP
RequestDataOn(r0, upd, views) ==
    LET r == Enter(r0, "RequestData")
    IN  IF r.FileName = 0 THEN [ r EXCEPT !.ret = 0 ]
        ELSE IF r.backend_ = 0 THEN [ r EXCEPT !.ret = 0 ]
        ELSE LET r1 == IF upd /\ r.steps > 0 THEN Backend(r, "setTime") ELSE r
                 r2 == updatePatchNamesView(Backend(r1, "Update"), views)
             IN  [ Backend(r2, "CleanUp") EXCEPT !.ret = 1 ]

\* SetFileName(name), of vtkSetStringMacro(FileName)
SetFileName ==
    /\ reader.calls < MaxCalls
    /\ \E name \in 0 .. MaxNames :
          reader' = [ Enter(reader, "SetFileName") EXCEPT !.FileName = name ]
    /\ UNCHANGED ParserVars

RequestInformation ==
    /\ reader.calls < MaxCalls
    /\ \E n \in 0 .. MaxTimes : reader' = RequestInformationOn(reader, n)
    /\ UNCHANGED ParserVars

RequestData ==
    /\ reader.calls < MaxCalls
    /\ \E upd \in BOOLEAN, views \in BOOLEAN :
          reader' = RequestDataOn(reader, upd, views)
    /\ UNCHANGED ParserVars

\* a reader as constructed, next to a Parser that is never made
InitReader ==
    /\ Init
    /\ input = << >>
    /\ plan = [ err |-> FALSE, parsers |-> 1, parses |-> 1 ]

NextReader ==
    \/ SetFileName
    \/ RequestInformation
    \/ RequestData

SpecReader == InitReader /\ [][NextReader]_vars

(***************************************************************************)
(* The language and its values, defined on token streams without running   *)
(* the parser: a stream is split at its last operator outside parentheses. *)
(***************************************************************************)
IsTerminal(x) == x.kind <= maxT

\* the stream the grammar sees: the pragmas removed
Grammar(s) == SelectSeq(s, IsTerminal)

\* '(' minus ')' among the first i - 1 tokens of s
RECURSIVE Depth(_, _)
Depth(s, i) ==
    IF i <= 1 THEN 0
    ELSE Depth(s, i - 1)
            + (IF s[i - 1].kind = 11 THEN 1 ELSE IF s[i - 1].kind = 12 THEN -1 ELSE 0)

\* s[i] is an operator of ops between two operands, outside parentheses
BinaryAt(s, i, ops) ==
    /\ i > 1
    /\ s[i].kind \in ops
    /\ s[i - 1].kind \in { 3, 4, 12 }
    /\ Depth(s, i) = 0

\* the last such operator, 0 if there is none
LastBinary(s, ops) ==
    LET I == { i \in 1 .. Len(s) : BinaryAt(s, i, ops) }
    IN  IF I = { } THEN 0 ELSE CHOOSE i \in I : \A j \in I : j <= i

Before(s, i) == SubSeq(s, 1, i - 1)

After(s, i) == SubSeq(s, i + 1, Len(s))

Inner(s, n) == SubSeq(s, n + 1, Len(s) - 1)

RECURSIVE IsExprRef(_), IsTermRef(_), IsFactorRef(_)
IsExprRef(s) ==
    LET i == LastBinary(s, { 7, 8 })
    IN  IF i > 0 THEN IsExprRef(Before(s, i)) /\ IsTermRef(After(s, i))
        ELSE IsTermRef(s)

IsTermRef(s) ==
    LET i == LastBinary(s, { 9, 10 })
    IN  IF i > 0 THEN IsTermRef(Before(s, i)) /\ IsFactorRef(After(s, i))
        ELSE IsFactorRef(s)

IsFactorRef(s) ==
    \/ Len(s) = 1 /\ s[1].kind \in { 3, 4 }
    \/ Len(s) >= 3 /\ s[1].kind = 11 /\ s[Len(s)].kind = 12 /\ IsExprRef(Inner(s, 1))
    \/ /\ Len(s) >= 4
       /\ s[1].kind = 8
       /\ s[2].kind = 11
       /\ s[Len(s)].kind = 12
       /\ IsExprRef(Inner(s, 2))

\* what the host resolvers return for the text of an operand
OperandValue(x) ==
    IF x.val = "0" THEN FromInt(0)
    ELSE IF x.val = "2" THEN FromInt(2)
    ELSE IF x.val = "$a" THEN FromInt(3)
    ELSE NaN

RECURSIVE ExprRef(_), TermRef(_), FactorRef(_)
\* the value of a stream s with IsExprRef(s)
ExprRef(s) ==
    LET i == LastBinary(s, { 7, 8 })
    IN  IF i = 0 THEN TermRef(s)
        ELSE IF s[i].kind = 7 THEN ScalarAdd(ExprRef(Before(s, i)), TermRef(After(s, i)))
        ELSE ScalarSub(ExprRef(Before(s, i)), TermRef(After(s, i)))

TermRef(s) ==
    LET i == LastBinary(s, { 9, 10 })
    IN  IF i = 0 THEN FactorRef(s)
        ELSE IF s[i].kind = 9 THEN ScalarMul(TermRef(Before(s, i)), FactorRef(After(s, i)))
        ELSE ScalarDiv(TermRef(Before(s, i)), FactorRef(After(s, i)))

FactorRef(s) ==
    IF Len(s) = 1 THEN OperandValue(s[1])
    ELSE IF s[1].kind = 11 THEN ExprRef(Inner(s, 1))
    ELSE ScalarNeg(ExprRef(Inner(s, 2)))

\* index in s of its first token of kind k, 0 if there is none
FirstOf(s, k) ==
    LET I == { i \in 1 .. Len(s) : s[i].kind = k }
    IN  IF I = { } THEN 0 ELSE CHOOSE i \in I : \A j \in I : i <= j

\* s starts with '{' Expr '}'
IsBraced(s) ==
    /\ Len(s) >= 3
    /\ s[1].kind = 5
    /\ FirstOf(s, 6) > 2
    /\ IsExprRef(SubSeq(s, 2, FirstOf(s, 6) - 1))

\* s is a sentence of Expr; the end-marker follows the last token of a stream
IsBare(s) == IsExprRef(s)

InLanguage(s) == IsBare(s) \/ IsBraced(s)

\* the value of a stream of the language
RefValue(s) ==
    IF IsBare(s) THEN ExprRef(s) ELSE ExprRef(SubSeq(s, 2, FirstOf(s, 6) - 1))

\* the first Parse() of a Parser has returned, and nothing happened since
Returned == phase = "ready" /\ nParses = 1

G == Grammar(input)

\* index in the input of the '}' that closes the braced form
CloseIdx == FirstOf(input, 6)

\* offset just after the token the i-th Scan() delivers
EndOfToken(i) == TokenAt(i).pos + coco_string_length(TokenAt(i).val)

\* index of the first grammar token of s after its i-th token, Len(s) + 1 (the
\* end-marker) if there is none
NextTerminal(s, i) ==
    LET I == { j \in (i + 1) .. Len(s) : s[j].kind <= maxT }
    IN  IF I = { } THEN Len(s) + 1 ELSE CHOOSE j \in I : \A k \in I : j <= k

(***************************************************************************)
(* The claims.                                                             *)
(***************************************************************************)

\* C1: when Parse() returns on a stream that starts with '{' Expr '}', the
\* buffer position is pos('}') + length(text of '}'), whatever follows the '}'.
C1_BracedReposition ==
    Returned /\ IsBraced(G) => bufPos = TokenAt(CloseIdx).pos + Len(TokenAt(CloseIdx).val)

\* C1 witness: a braced parse has returned with pragma tokens scanned after the
\* '}', and the buffer position is just after the '}', before the pragma.
C1_Witness ==
    /\ Returned
    /\ IsBraced(G)
    /\ CloseIdx < Len(input)
    /\ input[CloseIdx + 1].kind > maxT
    /\ scanIdx > CloseIdx + 1
    /\ bufPos = EndOfToken(CloseIdx)
    /\ bufPos < TokenAt(CloseIdx + 1).pos

\* C2 (as claimed): SetPos is called at most once per Parse(), only in the
\* braced form and only after the closing '}' was matched and consumed; in every
\* other parse it is not called and the buffer position is as the scanner left it.
C2_SetPosOnlyAfterBrace ==
    Returned =>
        /\ hist.nSetPos <= 1
        /\ hist.nSetPos = 1 => G # << >> /\ G[1].kind = 5 /\ Deref(Regs, t).kind = 6
        /\ hist.nSetPos = 0 => bufPos = PosAfterScan(TokenAt(scanIdx))

\* C3: on every stream of the language Parse() reports no error and val is the
\* value of the reference evaluator (precedence of * and / over + and -, left
\* to right within a level, parentheses, negation of a parenthesised expression).
C3_ValueIsReference ==
    Returned /\ InLanguage(G) => count = 0 /\ val = RefValue(G)

\* C3 witness: a parse of a stream with an additive operator, a multiplicative
\* operator and parentheses has returned the reference value.
C3_Witness ==
    /\ Returned
    /\ InLanguage(G)
    /\ \E i, j, k \in 1 .. Len(G) :
           G[i].kind \in { 7, 8 } /\ G[j].kind \in { 9, 10 } /\ G[k].kind = 11
    /\ LastBinary(G, { 8 }) > 0
    /\ val = RefValue(G)
    /\ val # FromInt(0)

\* C4: after the first Parse() of a Parser the error count is 0 if and only if
\* the stream, pragmas removed, is in the language: Expr followed by the
\* end-marker, or a stream that begins with '{' Expr '}'.
C4_ErrorFreeIffInLanguage ==
    Returned => (count = 0 <=> InLanguage(G))

\* C4 witness: a parse of a stream outside the language (an operand after an
\* operand) has returned with an error counted.
C4_Witness ==
    /\ Returned
    /\ ~InLanguage(G)
    /\ Len(G) >= 2
    /\ G[1].kind = 4
    /\ G[2].kind \in { 3, 4 }
    /\ count >= 1

\* a '-' in Factor position (first token of the expression, or after an
\* operator or a '(') that no '(' follows, in the part of s the grammar covers
NegWithoutParen(s) ==
    \E i \in 1 .. Len(s) :
        /\ s[i].kind = 8
        /\ i = Len(s) \/ s[i + 1].kind # 11
        /\ \/ i = 1
           \/ i = 2 /\ s[1].kind = 5
           \/ i > 1 /\ s[i - 1].kind \in { 7, 8, 9, 10, 11 }
        /\ ~(IsBraced(s) /\ i > FirstOf(s, 6))

\* C5: a stream with a '-' in Factor position that is not followed by '(' is
\* rejected: Parse() returns with an error count of at least 1.
C5_BareNegationRejected ==
    Returned /\ NegWithoutParen(G) => count >= 1

\* C5 witness: Parse() has returned on a stream that starts with '-' and an
\* operand, as "-3" and "-x" do, with an error counted.
C5_Witness ==
    /\ Returned
    /\ Len(G) = 2
    /\ G[1].kind = 8
    /\ G[2].kind \in { 3, 4 }
    /\ count >= 1

\* C6: between two diagnostics that reach the error reporter at least
\* minErrDist tokens are consumed by Get().
C6_CascadeSuppression ==
    [][count' > count /\ count > 0 => hist.sinceReport >= minErrDist]_vars

\* C6 witness: two diagnostics were reported and a third error was suppressed.
C6_Witness == count >= 2 /\ hist.nSynErr > count

\* C7: on a stream '{' Expr '}' S the outcome of Parse() is a function of the
\* part up to the '}' alone: no error is raised (reported or suppressed), val is
\* the value of Expr, the buffer position is just after the '}', and of S only
\* the lookahead token is scanned.
C7_SuffixIgnored ==
    Returned /\ IsBraced(G) =>
        /\ << count, hist.nSynErr >> = << 0, 0 >>
        /\ val = ExprRef(SubSeq(G, 2, FirstOf(G, 6) - 1))
        /\ bufPos = EndOfToken(CloseIdx)
        /\ scanIdx = NextTerminal(input, CloseIdx)

\* C7 witness: a braced parse has returned without error on a stream with
\* grammar tokens after the '}' that are no sentence of anything.
C7_Witness ==
    /\ Returned
    /\ IsBraced(G)
    /\ Len(input) > CloseIdx + 1
    /\ input[CloseIdx + 1].kind <= maxT
    /\ count = 0

\* Get() calls of a parse of a stream of the language: the first one, one for
\* each token up to the '}' or the end-marker
GetsRef(s) == IF IsBare(s) THEN Len(s) + 2 ELSE FirstOf(s, 6) + 1

\* C8: a division by a zero divisor in a well-formed input is no error: the
\* parse ends with error count 0, no SynErr/SemErr call, and the same number of
\* tokens consumed as any other parse of a stream of these kinds.
C8_ZeroDivisorNoError ==
    Returned /\ InLanguage(G) /\ hist.divZero =>
        count = 0 /\ hist.nSynErr = 0 /\ errDist >= minErrDist /\ hist.nGet = GetsRef(G)

\* C8 witness: a parse that divided a non-zero value by zero has returned an
\* infinity.
C8_Witness == Returned /\ InLanguage(G) /\ hist.divZero /\ IsInf(val) /\ count = 0

\* C9: the destructor destroys the reporter exactly when the Parser created
\* it, and then once; a reporter of the host is never destroyed by the Parser.
C9_ReporterOwnership ==
    /\ hist.hostDel = 0
    /\ hist.ownNew = (IF plan.err \/ phase = "none" THEN 0 ELSE 1)
    /\ hist.ownDel = (IF phase = "dead" THEN hist.ownNew ELSE 0)
    /\ phase \in { "ready", "run" } => errors = (IF plan.err THEN "host" ELSE "own")

\* C9 witness: a Parser that was given a reporter, and reported to it, has been
\* destroyed.
C9_Witness == phase = "dead" /\ plan.err /\ errors = "host" /\ count >= 1

IsPrefix(a, b) == Len(a) <= Len(b) /\ a = SubSeq(b, 1, Len(a))

\* C10: a second Parser on the same stream goes through the states the first
\* one went through, and ends with the same val, error count and position.
C10_SameRunOnFreshParser ==
    nParsers >= 2 /\ phase # "dead" =>
        IF nParses = 0 THEN IsPrefix(hist.trace, hist.prev) ELSE hist.trace = hist.prev

\* C10 witness: the second Parser has returned from a parse in which errors
\* were reported and suppressed.
C10_Witness ==
    /\ nParsers = 2
    /\ Returned
    /\ count >= 1
    /\ hist.nSynErr > count
    /\ hist.trace = hist.prev

(***************************************************************************)
(* The error count, SynErr, Get and Expect step by step                    *)
(***************************************************************************)
\* the step called SynErr()
SynErrStep == hist'.nSynErr = hist.nSynErr + 1

\* the step called Get()
GetStep == hist'.nGet = hist.nGet + 1

\* the step belongs to the life of one Parser
SameParser == nParsers' = nParsers

\* C11: during the life of a Parser the error count never goes down: a step
\* raises it by exactly one when it calls SynErr() with errDist >= minErrDist,
\* and every other step (a suppressed SynErr(), a Get(), a value computed, a
\* return) leaves it as it is; nothing resets it to 0.
C11_CountMonotone ==
    [][SameParser =>
          count' = count + (IF SynErrStep /\ errDist >= minErrDist THEN 1 ELSE 0)]_vars

\* C11 witness: a parse has returned after three SynErr() calls of which the
\* reporter counted two.
C11_Witness == Returned /\ hist.nSynErr = 3 /\ count = 2

\* C12: a step that calls SynErr(n) with errDist < minErrDist reports nothing
\* and leaves the count; with errDist >= minErrDist it reports one diagnostic
\* of code n at the line and column of the lookahead token and the count is
\* one higher; in both cases errDist is 0 afterwards and t and la are the
\* tokens they were.
C12_SynErrStep ==
    [][SameParser /\ SynErrStep =>
          /\ errDist' = 0
          /\ t' = t
          /\ la' = la
          /\ IF errDist < minErrDist
             THEN count' = count /\ hist'.diag = hist.diag
             ELSE /\ count' = count + 1
                  /\ hist'.diag[1] = Deref(Regs, la).line
                  /\ hist'.diag[2] = Deref(Regs, la).col]_vars

\* C12 witness: SynErr() was called twice, the first call was reported at the
\* lookahead token, which is still the lookahead token, the second call was
\* suppressed, and errDist is 0.
C12_Witness ==
    /\ phase = "run"
    /\ hist.nSynErr = 2
    /\ count = 1
    /\ errDist = 0
    /\ hist.diag[2] = Deref(Regs, la).col
    /\ hist.diag[2] # Deref(Regs, t).col

\* C13: a step that calls Get() raises errDist by exactly one, whatever the
\* number of pragma tokens it skips; any other step leaves errDist as it is,
\* or sets it to 0 by a SynErr() call.
C13_ErrDistPerGet ==
    [][SameParser =>
          IF GetStep THEN errDist' = errDist + 1
          ELSE errDist' = errDist \/ (SynErrStep /\ errDist' = 0)]_vars

\* C13 witness: the first Get() of a parse skipped two pragma tokens and
\* errDist is one higher than the constructor left it.
C13_Witness ==
    /\ phase = "run"
    /\ hist.nGet = 1
    /\ scanIdx = 3
    /\ Len(input) >= 2
    /\ input[1].kind > maxT
    /\ input[2].kind > maxT
    /\ errDist = minErrDist + 1

\* number of the first Scan() after the i-th that delivers a token of a kind
\* <= maxT; past the end of the stream every Scan() delivers an end-marker
NextScan(i) == IF i >= Len(input) THEN i + 1 ELSE NextTerminal(input, i)

\* the token la points to when Get() is entered: in Parse() the new dummy token
LaAtGet == IF InParse("Parse") THEN NewDummy ELSE Deref(Regs, la)

\* C14: after a step that calls Get() la is the next token of the scanner of a
\* kind <= maxT, and t carries the kind, position, line, column and text la
\* had before the call; when pragma tokens were skipped t is the dummy token.
C14_GetPostcondition ==
    [][SameParser /\ GetStep =>
          /\ la' = TokPtr(scanIdx')
          /\ scanIdx' = NextScan(scanIdx)
          /\ Deref(Regs', la').kind <= maxT
          /\ Deref(Regs', t') = LaAtGet
          /\ scanIdx' > scanIdx + 1 => t' = DummyPtr(Regs')]_vars

\* C14 witness: a Get() has skipped a pragma token that follows a number: t is
\* the dummy token holding the copy of the number, la the token after the
\* pragma.
C14_Witness ==
    /\ phase = "run"
    /\ scanIdx = 3
    /\ Len(input) >= 2
    /\ input[1].kind = 4
    /\ input[2].kind > maxT
    /\ t = DummyPtr(Regs)
    /\ dummyToken = TokenAt(1)
    /\ la = TokPtr(3)

\* the kind the step to come passes to Expect(), -1 when it calls no Expect()
ExpectArg ==
    IF InParse("calcEntry") /\ Top.pc = "rbrace" THEN 6
    ELSE IF InParse("calcEntry") /\ Top.pc = "eof" THEN 0
    ELSE IF InParse("Factor") /\ Top.pc = "lparen" THEN 11
    ELSE IF InParse("Factor") /\ Top.pc \in { "neg", "rparen" } THEN 12
    ELSE -1

\* C15: a step that calls Expect(n) with a lookahead of kind n consumes
\* exactly one token, by one Get(), and reports nothing; with any other
\* lookahead it consumes no token, leaves t and la, calls SynErr(n) once, so
\* the count goes up by at most one, and errDist is 0 afterwards.
C15_ExpectFrame ==
    [][ExpectArg # -1 =>
          IF LaKind(Regs) = ExpectArg
          THEN /\ GetStep
               /\ Deref(Regs', t') = Deref(Regs, la)
               /\ scanIdx' = NextScan(scanIdx)
               /\ hist'.nSynErr = hist.nSynErr
               /\ count' = count
          ELSE /\ hist'.nGet = hist.nGet
               /\ scanIdx' = scanIdx
               /\ t' = t
               /\ la' = la
               /\ SynErrStep
               /\ count' \in { count, count + 1 }
               /\ count' > count => hist'.diag[3] = ExpectArg
               /\ errDist' = 0]_vars

\* C15 witness: Expect(12) of a parenthesised factor has failed on a lookahead
\* that is still there, and Expect(6) of a braced entry met its '}' after it.
C15_Witness ==
    /\ Returned
    /\ G # << >>
    /\ G[1].kind = 5
    /\ hist.nSynErr = 1
    /\ hist.diag[3] = 12
    /\ hist.nSetPos = 1
    /\ Deref(Regs, t).kind = 6

(***************************************************************************)
(* The repetition loops of Expr and Term                                   *)
(***************************************************************************)
\* the step to come is the head of the loop of Expr, of Term
AtExprLoop == InParse("Expr") /\ Top.pc = "loop"

AtTermLoop == InParse("Term") /\ Top.pc = "loop"

\* the kinds that may follow an Expr: end-marker, '}' and ')'; a Term is also
\* followed by '+' and '-'
FollowExpr == { 0, 6, 12 }

FollowTerm == { 7, 8 } \cup FollowExpr

\* the lookahead is neither a separator of the loop nor a token that may
\* follow the repetition
LoopAtJunk ==
    \/ AtExprLoop /\ LaKind(Regs) \notin { 7, 8 } \cup FollowExpr
    \/ AtTermLoop /\ LaKind(Regs) \notin { 9, 10 } \cup FollowTerm

\* C16 as stated: a loop of Expr or Term that meets a lookahead which is
\* neither its separator nor a token that may follow the repetition calls
\* SynErr() and skips tokens, as WeakSeparator would.
C16_LoopsUseWeakSeparator ==
    [][LoopAtJunk => SynErrStep \/ GetStep]_vars

\* C16 amended: the loops of Expr and Term test the kind of the lookahead
\* themselves. With '+' or '-' (Expr), '*' or '/' (Term) the step is one Get();
\* with any other lookahead the loop ends and the procedure returns: no
\* SynErr(), no Get(), t, la, errDist, the count and the value as they were.
C16_LoopsTestLookahead ==
    [][AtExprLoop \/ AtTermLoop =>
          IF LaKind(Regs) \in (IF AtExprLoop THEN { 7, 8 } ELSE { 9, 10 })
          THEN GetStep /\ hist'.nSynErr = hist.nSynErr /\ Len(stack') = Len(stack) + 1
          ELSE /\ stack' = Ret(stack)
               /\ hist'.nSynErr = hist.nSynErr
               /\ hist'.nGet = hist.nGet
               /\ UNCHANGED << t, la, dummyToken, errDist, count, scanIdx, bufPos,
                               val >>]_vars

\* C16 witness: Expr has returned to calcEntry in front of an operand, a token
\* that cannot follow an Expr, and SynErr() has not been called.
C16_Witness ==
    /\ InParse("calcEntry")
    /\ Top.pc = "eof"
    /\ LaKind(Regs) \in { 3, 4 }
    /\ hist.nGet = 2
    /\ hist.nSynErr = 0

(***************************************************************************)
(* WeakSeparator and ExpectWeak                                            *)
(***************************************************************************)
\* the step enters WeakSeparator(rec'.n, rec'.syFol, rec'.repFol)
WeakSeparatorCall == rec.op = "none" /\ rec'.op = "WeakSeparator"

\* the step to come is a round of the while loop of WeakSeparator
WeakSeparatorSkip == rec.op = "WeakSeparator" /\ rec.pc = "skip"

\* C17: WeakSeparator(n, syFol, repFol) with la of kind n consumes one token
\* and returns true; else with la in set repFol it returns false and changes
\* nothing; otherwise it calls SynErr(n) once and then Get() as long as la is
\* in none of the sets syFol, repFol and 0, and returns whether la is in
\* syFol. Every Get() of the loop consumes a token of the text, and with the
\* end-marker as la the loop ends: the call terminates.
C17_WeakSeparator ==
    [][/\ WeakSeparatorCall =>
            IF LaKind(Regs) = rec'.n
            THEN /\ GetStep
                 /\ scanIdx' = NextScan(scanIdx)
                 /\ hist'.nSynErr = hist.nSynErr
                 /\ rec'.pc = "done"
                 /\ rec'.ret
            ELSE IF LaKind(Regs) \in StartOfSet(rec'.repFol)
            THEN /\ Regs' = Regs
                 /\ rec'.pc = "done"
                 /\ ~rec'.ret
            ELSE /\ SynErrStep
                 /\ hist'.nGet = hist.nGet
                 /\ scanIdx' = scanIdx
                 /\ la' = la
                 /\ rec'.pc = "skip"
       /\ WeakSeparatorSkip =>
            IF LaKind(Regs) \in
                 StartOfSet(rec.syFol) \cup StartOfSet(rec.repFol) \cup { EOFKind }
            THEN /\ Regs' = Regs
                 /\ rec'.pc = "done"
                 /\ rec'.ret = (LaKind(Regs) \in StartOfSet(rec.syFol))
            ELSE /\ GetStep
                 /\ scanIdx <= Len(input)
                 /\ scanIdx' = NextScan(scanIdx)
                 /\ hist'.nSynErr = hist.nSynErr
                 /\ rec' = rec]_vars

\* C17 witness: WeakSeparator(n, 1, 0) has skipped two tokens, stopped in front
\* of a token that starts an Expr and returned true.
C17_Witness ==
    /\ rec.op = "WeakSeparator"
    /\ rec.pc = "done"
    /\ rec.syFol = 1
    /\ rec.repFol = 0
    /\ hist.nGet = rec.nGet0 + 2
    /\ LaKind(Regs) \in StartOfSet(1)
    /\ rec.ret

\* the step enters ExpectWeak(rec'.n, rec'.syFol)
ExpectWeakCall == rec.op = "none" /\ rec'.op = "ExpectWeak"

\* the step to come is a round of the while loop of ExpectWeak
ExpectWeakSkip == rec.op = "ExpectWeak" /\ rec.pc = "skip"

\* ExpectWeak has returned, and the Parser is still there: the token of kind n
\* was consumed, or la belongs to the follow set
ExpectWeakPost ==
    rec.op = "ExpectWeak" /\ rec.pc = "done" /\ phase = "ready" =>
        \/ Deref(Regs, t).kind = rec.n /\ hist.nGet = rec.nGet0 + 1
        \/ LaKind(Regs) \in StartOfSet(rec.syFol)

\* C18 as stated: ExpectWeak(n, follow) returns for both follow sets: its loop
\* is never in front of an end-marker that the follow set does not hold, where
\* Get() delivers the next end-marker and the loop goes round again; and on
\* return the token of kind n was consumed or la belongs to the follow set.
C18_ExpectWeakReturns ==
    /\ ExpectWeakSkip => LaKind(Regs) # EOFKind \/ StartOf(Regs, rec.syFol)
    /\ ExpectWeakPost

\* C18 amended: ExpectWeak(n, follow) with la of kind n consumes one token;
\* otherwise it calls SynErr(n) once and then Get() as long as la is not in the
\* follow set. With follow set 0 every Get() of the loop consumes a token of
\* the text, so the call returns; with follow set 1, which does not hold the
\* end-marker, the loop goes on in front of the end-marker, where every Get()
\* delivers an end-marker again: the call does not return. On return the token
\* of kind n was consumed or la belongs to the follow set.
C18_ExpectWeak ==
    /\ []ExpectWeakPost
    /\ [][/\ ExpectWeakCall =>
               IF LaKind(Regs) = rec'.n
               THEN /\ GetStep
                    /\ scanIdx' = NextScan(scanIdx)
                    /\ hist'.nSynErr = hist.nSynErr
                    /\ rec'.pc = "done"
               ELSE /\ SynErrStep
                    /\ hist'.nGet = hist.nGet
                    /\ scanIdx' = scanIdx
                    /\ la' = la
                    /\ rec'.pc = "skip"
          /\ ExpectWeakSkip =>
               IF LaKind(Regs) \in StartOfSet(rec.syFol)
               THEN Regs' = Regs /\ rec'.pc = "done"
               ELSE /\ GetStep
                    /\ scanIdx' = NextScan(scanIdx)
                    /\ hist'.nSynErr = hist.nSynErr
                    /\ rec' = rec
                    /\ LaKind(Regs) = EOFKind =>
                          rec.syFol = 1 /\ LaKind(Regs') = EOFKind]_vars

\* C18 witness: ExpectWeak(n, 1) has skipped two tokens and returned in front
\* of a token of set 1.
C18_Witness ==
    /\ rec.op = "ExpectWeak"
    /\ rec.pc = "done"
    /\ rec.syFol = 1
    /\ hist.nGet = rec.nGet0 + 2
    /\ LaKind(Regs) \in StartOfSet(1)

(***************************************************************************)
(* Termination of Parse()                                                  *)
(***************************************************************************)
\* what a frame still has to do without consuming a token, counted in steps:
\* more than the frames it pushes and the position it goes on at together
Weight(f) ==
    CASE f.proc = "Parse" -> IF f.pc = "start" THEN 10 ELSE 1
      [] f.proc = "calcEntry" -> IF f.pc = "start" THEN 7 ELSE 1
      [] f.proc = "Expr" -> IF f.pc = "start" THEN 5 ELSE IF f.pc = "loop" THEN 1 ELSE 2
      [] f.proc = "Term" -> IF f.pc = "start" THEN 3 ELSE IF f.pc = "loop" THEN 1 ELSE 2
      [] f.proc = "Factor" -> IF f.pc = "lparen" THEN 7 ELSE 1

\* the weight of the frames of st from the i-th on
RECURSIVE WeightFrom(_, _)
WeightFrom(st, i) == IF i > Len(st) THEN 0 ELSE Weight(st[i]) + WeightFrom(st, i + 1)

StackWeight(st) == WeightFrom(st, 1)

\* tokens the scanner can still deliver to this Parse(): the rest of the text
\* and two end-markers, one for the first Get() and one for Expect(0)
TokensLeft == Len(input) + 2 * (nParses + 1) - scanIdx

\* a Get() pays for the frames pushed after it
Measure == 9 * TokensLeft + StackWeight(stack)

\* the procedure on top of the stack is at one of its positions, the guard of
\* one of its steps: none of them has another condition
AtStep ==
    /\ stack # << >>
    /\ \/ Top.proc = "Parse" /\ Top.pc \in { "start", "ret" }
       \/ Top.proc = "calcEntry" /\ Top.pc \in { "start", "rbrace", "eof" }
       \/ Top.proc = "Expr" /\ Top.pc \in { "start", "loop", "add", "sub" }
       \/ Top.proc = "Term" /\ Top.pc \in { "start", "loop", "mul", "div" }
       \/ Top.proc = "Factor" /\ Top.pc \in { "start", "lparen", "neg", "rparen" }

\* the step is a Get() of a grammar procedure in front of the end-marker
GetAtEnd ==
    /\ phase = "run"
    /\ ~InParse("Parse")
    /\ LaKind(Regs) = EOFKind
    /\ GetStep

\* C19: Parse() terminates on every stream: a running parse is always at a
\* position it can step from, whatever errors were reported or suppressed
\* (no step of a grammar procedure has a guard but its position), every step
\* lowers a measure that is never negative (no weight is, and the scanner never
\* delivers more than TokensLeft allows), because a step that pushes a frame
\* without lowering the weight of the stack (an iteration of a loop of Expr or
\* Term, an entry into Expr from Factor) calls Get(), and Get() consumes a
\* token. The end-marker is consumed only by Expect(0) of the bare form.
C19_ParseTerminates ==
    /\ [](phase = "run" => TokensLeft >= 0 /\ AtStep)
    /\ [][phase = "run" /\ phase' = "run" => Measure' < Measure]_vars
    /\ [][GetAtEnd => InParse("calcEntry") /\ Top.pc = "eof"]_vars

\* C19 witness: a parse in which errors were reported and suppressed has
\* returned in front of a token of the text.
C19_Witness ==
    /\ Returned
    /\ hist.nSynErr >= 2
    /\ hist.nSynErr > count
    /\ count >= 1
    /\ hist.nGet >= 3
    /\ LaKind(Regs) # EOFKind

(***************************************************************************)
(* The invalid entry                                                       *)
(***************************************************************************)
\* the first grammar token is neither '{' nor a token that starts an Expr, or
\* there is none
InvalidEntry == G = << >> \/ G[1].kind \notin { 5, 3, 4, 8, 11 }

\* C20: on a stream whose first grammar token is neither '{' nor the start of
\* an Expr, or that has none, the first Parse() of a Parser reports exactly
\* one diagnostic, of code 14 at that token, calls no Get() but the first one,
\* never calls SetPos(), so that the buffer is where the scanner left it after
\* that token, and leaves val at 0.
C20_InvalidEntry ==
    Returned /\ InvalidEntry =>
        /\ count = 1
        /\ hist.nSynErr = 1
        /\ hist.diag = << Deref(Regs, la).line, Deref(Regs, la).col, 14 >>
        /\ hist.nGet = 1
        /\ scanIdx = NextScan(0)
        /\ la = TokPtr(scanIdx)
        /\ hist.nSetPos = 0
        /\ bufPos = PosAfterScan(TokenAt(scanIdx))
        /\ val = FromInt(0)

\* C20 witness: a parse has returned on a stream that starts, after a pragma,
\* with a '}' followed by more tokens.
C20_Witness ==
    /\ Returned
    /\ Len(input) >= 3
    /\ input[1].kind > maxT
    /\ input[2].kind = 6
    /\ LaKind(Regs) = 6
    /\ count = 1
    /\ val = FromInt(0)

(***************************************************************************)
(* The dummy token                                                         *)
(***************************************************************************)
\* dummy tokens allocated and not released
DummyLive == hist.dummyNew - hist.dummyDel

\* Parse() calls on the current Parser that have allocated their dummy token
ParsesEntered ==
    nParses + (IF phase = "run" /\ ~(InParse("Parse") /\ Top.pc = "start") THEN 1 ELSE 0)

\* C21: while a Parser lives every Parse() call so far has allocated one dummy
\* token and released the one of the call before, so one dummy token is live
\* once Parse() was called and none before, and neither t nor la points to a
\* released token; after the destructor every dummy token allocated has been
\* released exactly once, which is none when Parse() was never called.
C21_DummyLifecycle ==
    /\ phase \in { "ready", "run" } =>
          /\ hist.dummyNew = ParsesEntered
          /\ DummyLive = (IF hist.dummyNew = 0 THEN 0 ELSE 1)
          /\ dummyToken # NoToken <=> hist.dummyNew > 0
          /\ ~IsDangling(Regs, t)
          /\ ~IsDangling(Regs, la)
    /\ phase = "dead" => DummyLive = 0 /\ dummyToken = NoToken
    /\ phase = "none" => hist.dummyNew = 0 /\ hist.dummyDel = 0

\* C21 witness: a Parser whose Parse() was called twice has been destroyed; t
\* still holds the address of the second dummy token.
C21_Witness ==
    /\ phase = "dead"
    /\ nParses = 2
    /\ hist.dummyNew = 2
    /\ hist.dummyDel = 2
    /\ t = DummyAt(2)

(***************************************************************************)
(* The first error                                                         *)
(***************************************************************************)
\* C22: until the first SynErr() call of a Parser errDist is minErrDist plus
\* the number of Get() calls, so never below minErrDist; the first SynErr()
\* call is therefore reported, and the error count is 0 exactly when SynErr()
\* was never called.
C22_FirstErrorReported ==
    /\ [](phase \in { "ready", "run" } /\ hist.nSynErr = 0 =>
             errDist = minErrDist + hist.nGet)
    /\ [](phase # "none" => (count = 0 <=> hist.nSynErr = 0))
    /\ [][SameParser /\ SynErrStep /\ hist.nSynErr = 0 =>
             errDist >= minErrDist /\ count' = 1]_vars

\* C22 witness: a parse has returned with one error, which is no invalid entry
\* and was detected and reported after four or more Get() calls.
C22_Witness ==
    /\ Returned
    /\ hist.nSynErr = 1
    /\ count = 1
    /\ hist.nGet >= 4
    /\ hist.diag[3] # 14

(***************************************************************************)
(* The backend of the reader                                               *)
(***************************************************************************)
\* the step is a call of the request named
ReaderStep(name) == reader'.calls = reader.calls + 1 /\ reader'.last = name

\* C23: RequestData returns 0 and calls no backend method when FileName is
\* unset or backend_ is null; backend_ becomes non-null only in a
\* RequestInformation call made with a FileName, which then returns 1; a
\* RequestInformation that finds no time steps deletes the backend, sets
\* backend_ to null and returns 0; no method is ever called through a null or
\* deleted backend, and a non-null backend_ points to a live backend.
C23_BackendLifecycle ==
    /\ [](~reader.misuse /\ (reader.backend_ # 0 => reader.backend_ \in reader.alive))
    /\ [][ReaderStep("RequestData") /\ (reader.FileName = 0 \/ reader.backend_ = 0) =>
             /\ reader'.ret = 0
             /\ reader'.log = << >>
             /\ reader'.backend_ = reader.backend_]_vars
    /\ [][reader.backend_ = 0 /\ reader'.backend_ # 0 =>
             /\ ReaderStep("RequestInformation")
             /\ reader.FileName # 0
             /\ reader'.ret = 1]_vars
    /\ [][ReaderStep("RequestInformation") /\ reader'.found = 0 =>
             /\ reader'.backend_ = 0
             /\ reader'.alive = { }
             /\ reader'.ret = 0]_vars
    /\ [][ReaderStep("RequestData") /\ reader'.ret = 1 =>
             /\ reader.backend_ \in reader.alive
             /\ reader'.backend_ = reader.backend_]_vars

\* C23 witness: after a RequestInformation that succeeded, a later one found
\* no time steps and deleted the backend, and the RequestData that followed
\* returned 0 with a FileName set and without calling the backend.
C23_Witness ==
    /\ reader.last = "RequestData"
    /\ reader.ret = 0
    /\ reader.log = << >>
    /\ reader.FileName # 0
    /\ reader.steps > 0
    /\ reader.made >= 1
    /\ reader.backend_ = 0
    /\ reader.alive = { }

====
